---- MODULE Spec2Model ----
(***************************************************************************)
(* medium-api-js: the two Medium client classes of src/index.js.           *)
(*                                                                         *)
(* Text is modelled as a sequence of tokens (one-character strings where   *)
(* the code inspects characters, longer atoms where it only concatenates), *)
(* JavaScript values as tagged records.  An async public method is a task  *)
(* that runs synchronously up to its first await (so the request is on the *)
(* wire when the call returns its promise) and is continued by the events  *)
(* of the network: fetch settling, then the body being read and decoded.   *)
(***************************************************************************)
EXTENDS Integers, Sequences, FiniteSets

VARIABLES
    apiKey,      \* primary client: #apiKey
    baseUrl,     \* primary client: #baseUrl
    headers,     \* primary client: #headers
    api_key,     \* legacy client: this.api_key
    calls,       \* legacy client: this.calls
    given,       \* the key handed to both constructors
    tasks,       \* the public method calls made so far, in call order
    wire,        \* the requests handed to fetch, in issue order
    articleUrl,  \* the argument of extractArticleId
    extracted    \* the completion of extractArticleId

vars == <<apiKey, baseUrl, headers, api_key, calls, given, tasks, wire,
          articleUrl, extracted>>

clientVars == <<apiKey, baseUrl, headers, api_key, calls, given>>
netVars == <<tasks, wire>>
extractVars == <<articleUrl, extracted>>

----------------------------------------------------------------------------
(* Bounds *)

\* public method calls made on the clients in one behaviour
MaxCalls == 2

\* characters of the argument of extractArticleId after its scheme prefix
MaxTail == 5

----------------------------------------------------------------------------
(* JavaScript values *)

Undefined == [type |-> "undefined"]
Null == [type |-> "null"]
Str(s) == [type |-> "string", s |-> s]
Num(n) == [type |-> "number", n |-> n]
Obj(f) == [type |-> "object", fields |-> f]
Arr(elems) == [type |-> "array", elems |-> elems]

\* a default parameter value applies when the argument is undefined
Default(v, d) == IF v = Undefined THEN d ELSE v

\* decimal digits of a natural number, as tokens
RECURSIVE Digits(_)
Digits(n) ==
    IF n < 10
    THEN <<CASE n = 0 -> "0" [] n = 1 -> "1" [] n = 2 -> "2" [] n = 3 -> "3"
             [] n = 4 -> "4" [] n = 5 -> "5" [] n = 6 -> "6" [] n = 7 -> "7"
             [] n = 8 -> "8" [] OTHER -> "9">>
    ELSE Digits(n \div 10) \o Digits(n % 10)

\* ToString, as URLSearchParams.append and string concatenation apply it
JsToString(v) ==
    CASE v.type = "string" -> v.s
      [] v.type = "number" -> Digits(v.n)
      [] v.type = "undefined" -> <<"undefined">>
      [] v.type = "null" -> <<"null">>
      [] OTHER -> <<"[object Object]">>

\* property read resp[key]: a TypeError on null and undefined, undefined for
\* a property the value does not have
CanRead(v) == v.type \notin {"undefined", "null"}
Get(v, key) ==
    IF v.type = "object" /\ key \in DOMAIN v.fields
    THEN v.fields[key]
    ELSE Undefined

\* completions of a promise or of a call
Returned(v) == [kind |-> "resolved", value |-> v]
Thrown(e) == [kind |-> "rejected", value |-> Str(<<e>>)]
Pending == [kind |-> "pending", value |-> Undefined]

\* s contains sub as a contiguous run of tokens
Contains(s, sub) ==
    \E i \in 1..(Len(s) - Len(sub) + 1) : SubSeq(s, i, i + Len(sub) - 1) = sub

----------------------------------------------------------------------------
(* fetch: the request it puts on the wire *)

\* Headers stores header names in lower case
LowerName(n) ==
    CASE n = "User-Agent" -> "user-agent"
      [] n = "X-RapidAPI-Key" -> "x-rapidapi-key"
      [] OTHER -> n

\* the request fetch(url, init) issues for call t: the method defaults to GET
FetchRequest(t, url, init) ==
    [task |-> t,
     method |-> IF "method" \in DOMAIN init THEN init.method ELSE "GET",
     url |-> url,
     headers |-> {<<LowerName(h[1]), h[2]>> : h \in init.headers}]

\* the header set of an object literal {name: value, ...}
HeaderObject(h) == {<<n, h[n]>> : n \in DOMAIN h}

----------------------------------------------------------------------------
(* URL and URLSearchParams, as far as #makeRequest uses them *)

\* application/x-www-form-urlencoded serialisation of one token
FormEncodeToken(c) ==
    CASE c = " " -> "+"
      [] c = ":" -> "%3A"
      [] c = "/" -> "%2F"
      [] c = "&" -> "%26"
      [] c = "=" -> "%3D"
      [] c = "?" -> "%3F"
      [] OTHER -> c

FormEncode(s) == [i \in 1..Len(s) |-> FormEncodeToken(s[i])]

\* serialisation of a list of name-value pairs: name=value joined by &
RECURSIVE FormSerialize(_)
FormSerialize(pairs) ==
    IF pairs = <<>>
    THEN <<>>
    ELSE LET p == Head(pairs)
             one == FormEncode(p[1]) \o <<"=">> \o FormEncode(p[2])
         IN IF Len(pairs) = 1
            THEN one
            ELSE one \o <<"&">> \o FormSerialize(Tail(pairs))

\* url.searchParams.append(key, value): the value is converted to a string
\* and the pair is added at the end of the list, whatever the value is
SearchParamsAppend(url, key, value) ==
    [url EXCEPT !.query = Append(@, <<<<key>>, JsToString(value)>>)]

\* new URL(text) for a text made of the base and an endpoint of identifiers
NewURL(text) == [path |-> text, query |-> <<>>]

\* the href of a URL: no "?" when the list of pairs is empty
Href(url) ==
    IF url.query = <<>>
    THEN url.path
    ELSE url.path \o <<"?">> \o FormSerialize(url.query)

----------------------------------------------------------------------------
(* The primary client: class Medium with private fields *)

\* an object literal {key: value, ...}: its keys in insertion order
ObjectLiteral(pairs) == [type |-> "literal", pairs |-> pairs]

\* the call this.#makeRequest(endpoint, params) a public method makes;
\* params is undefined where the method passes one argument only
MakeRequestCall(endpoint, params) == [endpoint |-> endpoint, params |-> params]

getUserId(username) ==
    MakeRequestCall(<<"user/id_for/">> \o JsToString(username), Undefined)

getUserInfo(userId) ==
    MakeRequestCall(<<"user/">> \o JsToString(userId), Undefined)

userPublications(userId) ==
    MakeRequestCall(<<"user/">> \o JsToString(userId) \o <<"/publications">>, Undefined)

getUserArticles(userId, next) ==
    MakeRequestCall(<<"user/">> \o JsToString(userId) \o <<"/articles">>,
                    ObjectLiteral(<<<<"next", Default(next, Str(<<>>))>>>>))

getUserListsById(userId) ==
    MakeRequestCall(<<"user/">> \o JsToString(userId) \o <<"/lists">>, Undefined)

getUserFollowers(userId, count, after) ==
    MakeRequestCall(<<"user/">> \o JsToString(userId) \o <<"/followers">>,
                    ObjectLiteral(<<<<"count", Default(count, Str(<<>>))>>, <<"after", Default(after, Str(<<>>))>>>>))

getUserInterests(userId) ==
    MakeRequestCall(<<"user/">> \o JsToString(userId) \o <<"/interests">>, Undefined)

getUserFollowing(userId) ==
    MakeRequestCall(<<"user/">> \o JsToString(userId) \o <<"/following">>, Undefined)

getUserPublicationFollowing(userId) ==
    MakeRequestCall(<<"user/">> \o JsToString(userId) \o <<"/publication_following">>, Undefined)

getUserTopArticles(userId) ==
    MakeRequestCall(<<"user/">> \o JsToString(userId) \o <<"/top_articles">>, Undefined)

getUserBooks(userId) ==
    MakeRequestCall(<<"user/">> \o JsToString(userId) \o <<"/books">>, Undefined)

getArticleInfo(articleId) ==
    MakeRequestCall(<<"article/">> \o JsToString(articleId), Undefined)

getArticleMarkdown(articleId) ==
    MakeRequestCall(<<"article/">> \o JsToString(articleId) \o <<"/markdown">>, Undefined)

getArticleHTML(articleId, fullpage, style_file) ==
    MakeRequestCall(<<"article/">> \o JsToString(articleId) \o <<"/html">>,
                    ObjectLiteral(<<<<"fullpage", Default(fullpage, Str(<<"true">>))>>, <<"style_file", Default(style_file, Str(<<"https", ":", "/", "/", "mediumapi.com", "/", "styles", "/", "dark.css">>))>>>>))

getArticleAssets(articleId) ==
    MakeRequestCall(<<"article/">> \o JsToString(articleId) \o <<"/assets">>, Undefined)

getArticleResponses(articleId) ==
    MakeRequestCall(<<"article/">> \o JsToString(articleId) \o <<"/responses">>, Undefined)

getArticleFans(articleId) ==
    MakeRequestCall(<<"article/">> \o JsToString(articleId) \o <<"/fans">>, Undefined)

getArticleContent(articleId) ==
    MakeRequestCall(<<"article/">> \o JsToString(articleId) \o <<"/content">>, Undefined)

getRelatedArticles(articleId) ==
    MakeRequestCall(<<"article/">> \o JsToString(articleId) \o <<"/related">>, Undefined)

getRecommendedArticles(articleId) ==
    MakeRequestCall(<<"article/">> \o JsToString(articleId) \o <<"/recommended">>, Undefined)

getPublicationId(publicationSlug) ==
    MakeRequestCall(<<"publication/id_for/">> \o JsToString(publicationSlug), Undefined)

getPublicationInfo(publicationId) ==
    MakeRequestCall(<<"publication/">> \o JsToString(publicationId), Undefined)

getPublicationArticles(publicationId, from) ==
    MakeRequestCall(<<"publication/">> \o JsToString(publicationId) \o <<"/articles">>,
                    ObjectLiteral(<<<<"from", Default(from, Str(<<>>))>>>>))

getPublicationNewsletter(publicationId) ==
    MakeRequestCall(<<"publication/">> \o JsToString(publicationId) \o <<"/newsletter">>, Undefined)

getArchivedArticles(tag, year, month, next) ==
    MakeRequestCall(<<"archived_articles/">> \o JsToString(tag),
                    ObjectLiteral(<<<<"year", Default(year, Str(<<>>))>>, <<"month", Default(month, Str(<<>>))>>, <<"next", Default(next, Str(<<>>))>>>>))

getRecommendedFeed(tag, page) ==
    MakeRequestCall(<<"recommended_feed/">> \o JsToString(tag),
                    ObjectLiteral(<<<<"page", Default(page, Str(<<>>))>>>>))

getTopWriters(topicSlug, count) ==
    MakeRequestCall(<<"top_writers/">> \o JsToString(topicSlug),
                    ObjectLiteral(<<<<"count", Default(count, Str(<<>>))>>>>))

getLatestPosts(topicSlug) ==
    MakeRequestCall(<<"latestposts/">> \o JsToString(topicSlug), Undefined)

getTopFeeds(tag, mode) ==
    MakeRequestCall(<<"topfeeds/">> \o JsToString(tag) \o <<"/">> \o JsToString(mode), Undefined)

getRelatedTags(tag) ==
    MakeRequestCall(<<"related_tags/">> \o JsToString(tag), Undefined)

getTagInfo(tag) ==
    MakeRequestCall(<<"tag/">> \o JsToString(tag), Undefined)

getRootTags ==
    MakeRequestCall(<<"root_tags">>, Undefined)

getRecommendedUsers(tag) ==
    MakeRequestCall(<<"recommended_users/">> \o JsToString(tag), Undefined)

getListInfo(listId) ==
    MakeRequestCall(<<"list/">> \o JsToString(listId), Undefined)

getListArticles(listId) ==
    MakeRequestCall(<<"list/">> \o JsToString(listId) \o <<"/articles">>, Undefined)

getListResponses(listId) ==
    MakeRequestCall(<<"list/">> \o JsToString(listId) \o <<"/responses">>, Undefined)

getSearchUsers(query) ==
    MakeRequestCall(<<"search/users">>,
                    ObjectLiteral(<<<<"query", query>>>>))

getSearchPublications(query) ==
    MakeRequestCall(<<"search/publications">>,
                    ObjectLiteral(<<<<"query", query>>>>))

getSearchLists(query) ==
    MakeRequestCall(<<"search/lists">>,
                    ObjectLiteral(<<<<"query", query>>>>))

getSearchTags(query) ==
    MakeRequestCall(<<"search/tags">>,
                    ObjectLiteral(<<<<"query", query>>>>))

getSearchArticles(query) ==
    MakeRequestCall(<<"search/articles">>,
                    ObjectLiteral(<<<<"query", query>>>>))

\* the public methods of the primary client
PrimaryMethods ==
    {"getUserId", "getUserInfo", "userPublications", "getUserArticles",
     "getUserListsById", "getUserFollowers", "getUserInterests",
     "getUserFollowing", "getUserPublicationFollowing",
     "getUserTopArticles", "getUserBooks", "getArticleInfo",
     "getArticleMarkdown", "getArticleHTML", "getArticleAssets",
     "getArticleResponses", "getArticleFans", "getArticleContent",
     "getRelatedArticles", "getRecommendedArticles", "getPublicationId",
     "getPublicationInfo", "getPublicationArticles",
     "getPublicationNewsletter", "getArchivedArticles",
     "getRecommendedFeed", "getTopWriters", "getLatestPosts",
     "getTopFeeds", "getRelatedTags", "getTagInfo", "getRootTags",
     "getRecommendedUsers", "getListInfo", "getListArticles",
     "getListResponses", "getSearchUsers", "getSearchPublications",
     "getSearchLists", "getSearchTags", "getSearchArticles"}

\* medium[m](...a): a holds the arguments, undefined where one is omitted
PrimaryMethod(m, a) ==
    CASE m = "getUserId" -> getUserId(a[1])
      [] m = "getUserInfo" -> getUserInfo(a[1])
      [] m = "userPublications" -> userPublications(a[1])
      [] m = "getUserArticles" -> getUserArticles(a[1], a[2])
      [] m = "getUserListsById" -> getUserListsById(a[1])
      [] m = "getUserFollowers" -> getUserFollowers(a[1], a[2], a[3])
      [] m = "getUserInterests" -> getUserInterests(a[1])
      [] m = "getUserFollowing" -> getUserFollowing(a[1])
      [] m = "getUserPublicationFollowing" -> getUserPublicationFollowing(a[1])
      [] m = "getUserTopArticles" -> getUserTopArticles(a[1])
      [] m = "getUserBooks" -> getUserBooks(a[1])
      [] m = "getArticleInfo" -> getArticleInfo(a[1])
      [] m = "getArticleMarkdown" -> getArticleMarkdown(a[1])
      [] m = "getArticleHTML" -> getArticleHTML(a[1], a[2], a[3])
      [] m = "getArticleAssets" -> getArticleAssets(a[1])
      [] m = "getArticleResponses" -> getArticleResponses(a[1])
      [] m = "getArticleFans" -> getArticleFans(a[1])
      [] m = "getArticleContent" -> getArticleContent(a[1])
      [] m = "getRelatedArticles" -> getRelatedArticles(a[1])
      [] m = "getRecommendedArticles" -> getRecommendedArticles(a[1])
      [] m = "getPublicationId" -> getPublicationId(a[1])
      [] m = "getPublicationInfo" -> getPublicationInfo(a[1])
      [] m = "getPublicationArticles" -> getPublicationArticles(a[1], a[2])
      [] m = "getPublicationNewsletter" -> getPublicationNewsletter(a[1])
      [] m = "getArchivedArticles" -> getArchivedArticles(a[1], a[2], a[3], a[4])
      [] m = "getRecommendedFeed" -> getRecommendedFeed(a[1], a[2])
      [] m = "getTopWriters" -> getTopWriters(a[1], a[2])
      [] m = "getLatestPosts" -> getLatestPosts(a[1])
      [] m = "getTopFeeds" -> getTopFeeds(a[1], a[2])
      [] m = "getRelatedTags" -> getRelatedTags(a[1])
      [] m = "getTagInfo" -> getTagInfo(a[1])
      [] m = "getRootTags" -> getRootTags
      [] m = "getRecommendedUsers" -> getRecommendedUsers(a[1])
      [] m = "getListInfo" -> getListInfo(a[1])
      [] m = "getListArticles" -> getListArticles(a[1])
      [] m = "getListResponses" -> getListResponses(a[1])
      [] m = "getSearchUsers" -> getSearchUsers(a[1])
      [] m = "getSearchPublications" -> getSearchPublications(a[1])
      [] m = "getSearchLists" -> getSearchLists(a[1])
      [] m = "getSearchTags" -> getSearchTags(a[1])
      [] m = "getSearchArticles" -> getSearchArticles(a[1])

\* the parameters of a method: TRUE where the parameter has a default value
HasDefault(m) ==
    CASE m = "getUserId" -> <<FALSE>>
      [] m = "getUserInfo" -> <<FALSE>>
      [] m = "userPublications" -> <<FALSE>>
      [] m = "getUserArticles" -> <<FALSE, TRUE>>
      [] m = "getUserListsById" -> <<FALSE>>
      [] m = "getUserFollowers" -> <<FALSE, TRUE, TRUE>>
      [] m = "getUserInterests" -> <<FALSE>>
      [] m = "getUserFollowing" -> <<FALSE>>
      [] m = "getUserPublicationFollowing" -> <<FALSE>>
      [] m = "getUserTopArticles" -> <<FALSE>>
      [] m = "getUserBooks" -> <<FALSE>>
      [] m = "getArticleInfo" -> <<FALSE>>
      [] m = "getArticleMarkdown" -> <<FALSE>>
      [] m = "getArticleHTML" -> <<FALSE, TRUE, TRUE>>
      [] m = "getArticleAssets" -> <<FALSE>>
      [] m = "getArticleResponses" -> <<FALSE>>
      [] m = "getArticleFans" -> <<FALSE>>
      [] m = "getArticleContent" -> <<FALSE>>
      [] m = "getRelatedArticles" -> <<FALSE>>
      [] m = "getRecommendedArticles" -> <<FALSE>>
      [] m = "getPublicationId" -> <<FALSE>>
      [] m = "getPublicationInfo" -> <<FALSE>>
      [] m = "getPublicationArticles" -> <<FALSE, TRUE>>
      [] m = "getPublicationNewsletter" -> <<FALSE>>
      [] m = "getArchivedArticles" -> <<FALSE, TRUE, TRUE, TRUE>>
      [] m = "getRecommendedFeed" -> <<FALSE, TRUE>>
      [] m = "getTopWriters" -> <<FALSE, TRUE>>
      [] m = "getLatestPosts" -> <<FALSE>>
      [] m = "getTopFeeds" -> <<FALSE, FALSE>>
      [] m = "getRelatedTags" -> <<FALSE>>
      [] m = "getTagInfo" -> <<FALSE>>
      [] m = "getRootTags" -> <<>>
      [] m = "getRecommendedUsers" -> <<FALSE>>
      [] m = "getListInfo" -> <<FALSE>>
      [] m = "getListArticles" -> <<FALSE>>
      [] m = "getListResponses" -> <<FALSE>>
      [] m = "getSearchUsers" -> <<FALSE>>
      [] m = "getSearchPublications" -> <<FALSE>>
      [] m = "getSearchLists" -> <<FALSE>>
      [] m = "getSearchTags" -> <<FALSE>>
      [] m = "getSearchArticles" -> <<FALSE>>

\* Object.keys(params).forEach(key => url.searchParams.append(key, params[key]))
RECURSIVE AppendEach(_, _)
AppendEach(url, pairs) ==
    IF pairs = <<>>
    THEN url
    ELSE AppendEach(SearchParamsAppend(url, Head(pairs)[1], Head(pairs)[2]),
                    Tail(pairs))

\* #makeRequest calling fetch(url) without its second argument
makeRequestSendBare(t, call) ==
    LET params == Default(call.params, ObjectLiteral(<<>>))
        url == AppendEach(NewURL(baseUrl \o call.endpoint), params.pairs)
    IN FetchRequest(t, Href(url), [headers |-> {}])

\* #makeRequest up to its await: the request call t hands to fetch
makeRequestSend(t, call) ==
    LET params == Default(call.params, ObjectLiteral(<<>>))
        url == AppendEach(NewURL(baseUrl \o call.endpoint), params.pairs)
    IN FetchRequest(t, Href(url),
                    [method |-> "GET", headers |-> HeaderObject(headers)])

\* the text of the error #makeRequest reports
ErrorText(endpoint, response) ==
    <<"Failed to fetch ">> \o endpoint \o <<": ">> \o response.statusText

\* #makeRequest throwing on a status that is no success
makeRequestReceiveThrows(endpoint, response) ==
    IF ~response.ok
    THEN [pc |-> "done", outcome |-> Thrown("Error")]
    ELSE [pc |-> "json", outcome |-> Pending]

\* #makeRequest after fetch has resolved with response: an error object when
\* the status is no success, else the promise of response.json()
makeRequestReceive(endpoint, response) ==
    IF ~response.ok
    THEN [pc |-> "done",
          outcome |-> Returned(Obj([k \in {"error"} |->
                                       Str(ErrorText(endpoint, response))]))]
    ELSE [pc |-> "json", outcome |-> Pending]

----------------------------------------------------------------------------
(* The legacy client: class Medium with public fields *)

\* what a legacy public method does: the endpoint it hands to __get_resp
\* and the property of the decoded body it returns ("" for the body itself)
GetRespCall(endpoint, field) == [endpoint |-> endpoint, field |-> field]

get_welcome == GetRespCall(<<"/">>, "")

get_user_id(username) ==
    GetRespCall(<<"/user/id_for/">> \o JsToString(username), "id")

get_user_info(user_id) ==
    GetRespCall(<<"/user/">> \o JsToString(user_id), "")

get_article_info(article_id) ==
    GetRespCall(<<"/article/">> \o JsToString(article_id), "")

get_article_content(article_id) ==
    GetRespCall(<<"/article/">> \o JsToString(article_id) \o <<"/content">>,
                "content")

get_article_responses(article_id) ==
    GetRespCall(<<"/article/">> \o JsToString(article_id) \o <<"/responses">>,
                "responses")

get_topfeeds(tag, mode) ==
    GetRespCall(<<"/topfeeds/">> \o JsToString(tag) \o <<"/">>
                    \o JsToString(mode),
                "topfeeds")

LegacyMethods ==
    {"get_welcome", "get_user_id", "get_user_info", "get_article_info",
     "get_article_content", "get_article_responses", "get_topfeeds"}

LegacyMethod(m, a) ==
    CASE m = "get_welcome" -> get_welcome
      [] m = "get_user_id" -> get_user_id(a[1])
      [] m = "get_user_info" -> get_user_info(a[1])
      [] m = "get_article_info" -> get_article_info(a[1])
      [] m = "get_article_content" -> get_article_content(a[1])
      [] m = "get_article_responses" -> get_article_responses(a[1])
      [] m = "get_topfeeds" -> get_topfeeds(a[1], a[2])

\* __get_resp up to the promise it returns: the request call t hands to fetch
get_respSend(t, endpoint) ==
    LET base_url == <<"https://medium2.p.rapidapi.com">>
    IN FetchRequest(t, base_url \o endpoint,
                    [headers |-> {<<"x-rapidapi-key", api_key>>,
                                  <<"User-Agent", "medium-api-js-sdk">>}])

\* __get_resp rejecting on a status that is no success
get_respReceiveChecked(response) ==
    IF ~response.ok
    THEN [pc |-> "done", outcome |-> Thrown("Error")]
    ELSE [pc |-> "json", outcome |-> Pending]

\* .then(res => res.json()): whatever the status of res, its body is decoded
get_respReceive(response) == [pc |-> "json", outcome |-> Pending]

\* a legacy public method returning the decoded body whatever its field
LegacyReturnWhole(field, resp) == Returned(resp)

\* the identifiers the file can resolve: its class, and what the runtime
\* provides; it declares, imports and requires nothing else
Bindings == {"Medium", "module", "fetch"}

\* what isEmpty is meant to tell: nothing in the value
NothingIn(v) ==
    \/ v.type \in {"undefined", "null"}
    \/ v.type = "array" /\ v.elems = <<>>
    \/ v.type = "string" /\ v.s = <<>>
    \/ v.type = "object" /\ DOMAIN v.fields = {}

\* the rest of get_topfeeds, resumed with the decoded body resp: the callee
\* isEmpty is resolved before its argument is evaluated, and an identifier
\* without binding is a ReferenceError
get_topfeedsReturn(resp) ==
    IF "isEmpty" \notin Bindings
    THEN Thrown("ReferenceError")
    ELSE IF ~CanRead(resp)
         THEN Thrown("TypeError")
         ELSE IF NothingIn(Get(resp, "topfeeds"))
              THEN Returned(Arr(<<>>))
              ELSE Returned(Get(resp, "topfeeds"))

\* the rest of a legacy public method, resumed with the decoded body resp
LegacyReturn(field, resp) ==
    IF field = ""
    THEN Returned(resp)
    ELSE IF CanRead(resp)
         THEN Returned(Get(resp, field))
         ELSE Thrown("TypeError")

----------------------------------------------------------------------------
(* response.json(): the body text is read and decoded *)

\* the JSON string literals that occur in the bodies, and the text of each
StringLiteral(tok) ==
    CASE tok = "\"id\"" -> <<"id">>
      [] tok = "\"abc123\"" -> <<"abc123">>
      [] tok = "\"content\"" -> <<"content">>
      [] tok = "\"text\"" -> <<"text">>
      [] tok = "\"topfeeds\"" -> <<"topfeeds">>
      [] tok = "\"a1\"" -> <<"a1">>
      [] tok = "\"a2\"" -> <<"a2">>
      [] OTHER -> <<>>

IsStringLiteral(tok) == StringLiteral(tok) # <<>>

\* a JSON scalar: null or a string literal
IsScalar(tok) == tok = "null" \/ IsStringLiteral(tok)
Scalar(tok) == IF tok = "null" THEN Null ELSE Str(StringLiteral(tok))

\* the elements  scalar , ...  of an array, from token i up to the closing
\* bracket, which is token end; ok FALSE stands for a syntax error
RECURSIVE Elements(_, _, _)
Elements(text, i, acc) ==
    IF i + 1 > Len(text) \/ ~IsScalar(text[i])
    THEN [ok |-> FALSE, value |-> Arr(acc), end |-> i]
    ELSE IF text[i + 1] = "]"
         THEN [ok |-> TRUE, value |-> Arr(Append(acc, Scalar(text[i]))),
               end |-> i + 1]
         ELSE IF text[i + 1] = ","
              THEN Elements(text, i + 2, Append(acc, Scalar(text[i])))
              ELSE [ok |-> FALSE, value |-> Arr(acc), end |-> i]

\* the scalar or array of scalars that starts at token i, and its last token
ValueAt(text, i) ==
    IF i > Len(text)
    THEN [ok |-> FALSE, value |-> Null, end |-> i]
    ELSE IF IsScalar(text[i])
         THEN [ok |-> TRUE, value |-> Scalar(text[i]), end |-> i]
         ELSE IF text[i] # "["
              THEN [ok |-> FALSE, value |-> Null, end |-> i]
              ELSE IF i + 1 <= Len(text) /\ text[i + 1] = "]"
                   THEN [ok |-> TRUE, value |-> Arr(<<>>), end |-> i + 1]
                   ELSE Elements(text, i + 1, <<>>)

\* the members  "key" : value , ...  of an object, from token i up to the
\* closing brace; FALSE stands for a syntax error
RECURSIVE Members(_, _, _)
Members(text, i, acc) ==
    IF i + 3 > Len(text)
       \/ ~IsStringLiteral(text[i]) \/ text[i + 1] # ":"
       \/ ~ValueAt(text, i + 2).ok \/ ValueAt(text, i + 2).end >= Len(text)
    THEN [ok |-> FALSE, fields |-> acc]
    ELSE LET key == StringLiteral(text[i])[1]
             v == ValueAt(text, i + 2)
             more == [k \in DOMAIN acc \cup {key} |->
                         IF k = key THEN v.value ELSE acc[k]]
         IN IF text[v.end + 1] = "}"
            THEN [ok |-> v.end + 1 = Len(text), fields |-> more]
            ELSE IF text[v.end + 1] = ","
                 THEN Members(text, v.end + 2, more)
                 ELSE [ok |-> FALSE, fields |-> acc]

NoFields == [k \in {} |-> Null]

\* JSON.parse of a body text: a scalar, an array of scalars, or an object
\* of such values
JsonParse(text) ==
    IF ValueAt(text, 1).ok /\ ValueAt(text, 1).end = Len(text)
    THEN Returned(ValueAt(text, 1).value)
    ELSE IF text = <<"{", "}">>
         THEN Returned(Obj(NoFields))
         ELSE IF Len(text) > 2 /\ text[1] = "{"
                 /\ Members(text, 2, NoFields).ok
              THEN Returned(Obj(Members(text, 2, NoFields).fields))
              ELSE Thrown("SyntaxError")

----------------------------------------------------------------------------
(* Construction *)

\* new Medium(apiKey), primary: the three private fields
PrimaryConstructor(key) ==
    [apiKey |-> key,
     baseUrl |-> <<"https://medium2.p.rapidapi.com/">>,
     headers |-> [n \in {"x-rapidapi-key", "user-agent"} |->
                     IF n = "x-rapidapi-key" THEN key ELSE "medium-api-js-sdk"]]

\* new Medium(api_key), legacy: the two public fields
LegacyConstructor(key) == [api_key |-> key, calls |-> 0]

\* a call counted twice
CountCallTwice(n) == n + 2

\* this.calls += 1
CountCall(n) == n + 1

----------------------------------------------------------------------------
(* Inputs *)

Keys == {"KEY-A", "KEY-B"}

\* values of a required argument (an identifier, which the URL keeps as it
\* is written), and of an optional one (undefined: omitted)
Required == {Str(<<"u1">>)}
Optional == {Undefined, Str(<<>>), Str(<<"x">>), Str(<<"a", " ", "b">>), Num(5)}

\* the argument lists of primary method m
Arguments(m) ==
    LET d == HasDefault(m)
    IN {a \in [1..Len(d) -> Required \cup Optional] :
           \A j \in 1..Len(d) :
               IF d[j] THEN a[j] \in Optional ELSE a[j] \in Required}

\* the argument lists of legacy method m
Modes == {"hot", "new", "top_week", "top_month", "top_year", "top_all_time"}

LegacyArguments(m) ==
    CASE m = "get_welcome" -> {<<>>}
      [] m = "get_topfeeds" ->
             {<<r, Str(<<mode>>)>> : r \in Required, mode \in Modes}
      [] OTHER -> {<<r>> : r \in Required}

\* the calls made where several are in flight at once
ConcurrentPrimary ==
    {<<"getUserId", <<Str(<<"u1">>)>>>>,
     <<"getUserFollowers", <<Str(<<"u1">>), Undefined, Undefined>>>>,
     <<"getSearchUsers", <<Str(<<"a", " ", "b">>)>>>>}

ConcurrentLegacy ==
    {<<"get_user_id", <<Str(<<"u1">>)>>>>,
     <<"get_user_info", <<Str(<<"u1">>)>>>>,
     <<"get_article_content", <<Str(<<"u1">>)>>>>}

\* what the server may answer: status line, then body text
Response(status, text) ==
    [status |-> status, ok |-> status >= 200 /\ status <= 299,
     statusText |-> <<text>>]

Responses ==
    {Response(200, "OK"), Response(404, "Not Found"),
     Response(500, "Internal Server Error")}

NoResponse == [status |-> 0, ok |-> FALSE, statusText |-> <<>>]

Bodies ==
    {<<"<html>">>,
     <<"null">>,
     <<"{", "\"id\"", ":", "\"abc123\"", "}">>,
     <<"{", "\"content\"", ":", "\"text\"", "}">>}

----------------------------------------------------------------------------
(* Public method calls and the events that continue them *)

NewTask(client, m, a, endpoint, params, field) ==
    [client |-> client, method |-> m, args |-> a, endpoint |-> endpoint,
     params |-> params, field |-> field, pc |-> "fetch",
     response |-> NoResponse, bodyUsed |-> FALSE, body |-> <<>>,
     outcome |-> Pending]

\* a public method of the primary client is called: it runs #makeRequest up
\* to "await fetch(...)" and returns its promise
PrimaryCall(limit, m, a) ==
    /\ Len(tasks) < limit
    /\ LET t == Len(tasks) + 1
           call == PrimaryMethod(m, a)
       IN /\ wire' = Append(wire, makeRequestSend(t, call))
          /\ tasks' = Append(tasks,
                 NewTask("primary", m, a, call.endpoint,
                         Default(call.params, ObjectLiteral(<<>>)), ""))
    /\ UNCHANGED <<clientVars, extractVars>>

\* a public method of the legacy client is called: it runs __get_resp, which
\* counts the call and returns the promise of fetch(...).then(...)
LegacyCall(limit, m, a) ==
    /\ Len(tasks) < limit
    /\ LET t == Len(tasks) + 1
           call == LegacyMethod(m, a)
       IN /\ wire' = Append(wire, get_respSend(t, call.endpoint))
          /\ tasks' = Append(tasks,
                 NewTask("legacy", m, a, call.endpoint, ObjectLiteral(<<>>),
                         call.field))
    /\ calls' = CountCall(calls)
    /\ UNCHANGED <<apiKey, baseUrl, headers, api_key, given, extractVars>>

\* the response kept where every call in flight reads it
FetchResolvedShared(ts, t, response) ==
    [u \in DOMAIN ts |->
        IF ts[u].pc = "fetch"
        THEN LET r == IF ts[u].client = "primary"
                      THEN makeRequestReceive(ts[u].endpoint, response)
                      ELSE get_respReceive(response)
             IN [ts[u] EXCEPT !.pc = r.pc, !.response = response,
                              !.outcome = r.outcome]
        ELSE ts[u]]

\* the task table after fetch has resolved for task t with response
FetchResolved(ts, t, response) ==
    LET r == IF ts[t].client = "primary"
             THEN makeRequestReceive(ts[t].endpoint, response)
             ELSE get_respReceive(response)
    IN [ts EXCEPT ![t].pc = r.pc, ![t].response = response,
                  ![t].outcome = r.outcome]

\* the task table after response.json() has settled for task t on body
BodyDecoded(ts, t, body) ==
    LET parsed == JsonParse(body)
        outcome == IF parsed.kind = "rejected" \/ ts[t].client = "primary"
                   THEN parsed
                   ELSE IF ts[t].method = "get_topfeeds"
                        THEN get_topfeedsReturn(parsed.value)
                        ELSE LegacyReturn(ts[t].field, parsed.value)
    IN [ts EXCEPT ![t].pc = "done", ![t].bodyUsed = TRUE, ![t].body = body,
                  ![t].outcome = outcome]

\* the status line and headers of a response arrive
FetchResolve(t, response) ==
    /\ t \in DOMAIN tasks
    /\ tasks[t].pc = "fetch"
    /\ tasks' = FetchResolved(tasks, t, response)
    /\ UNCHANGED <<clientVars, wire, extractVars>>

\* the transport fails: fetch rejects, and so does the public method
FetchReject(t) ==
    /\ t \in DOMAIN tasks
    /\ tasks[t].pc = "fetch"
    /\ tasks' = [tasks EXCEPT ![t].pc = "done",
                              ![t].outcome = Thrown("TypeError")]
    /\ UNCHANGED <<clientVars, wire, extractVars>>

\* the body of a response has been read: response.json() settles
ReadBody(t, body) ==
    /\ t \in DOMAIN tasks
    /\ tasks[t].pc = "json"
    /\ tasks' = BodyDecoded(tasks, t, body)
    /\ UNCHANGED <<clientVars, wire, extractVars>>

----------------------------------------------------------------------------
(* Specifications of the clients *)

NotExtracting == [kind |-> "idle", value |-> Undefined]

Constructed(key) ==
    /\ given = key
    /\ apiKey = PrimaryConstructor(key).apiKey
    /\ baseUrl = PrimaryConstructor(key).baseUrl
    /\ headers = PrimaryConstructor(key).headers
    /\ api_key = LegacyConstructor(key).api_key
    /\ calls = LegacyConstructor(key).calls

Init ==
    /\ \E key \in Keys : Constructed(key)
    /\ tasks = <<>>
    /\ wire = <<>>
    /\ articleUrl = <<>>
    /\ extracted = NotExtracting

Settle ==
    \/ \E t \in 1..Len(tasks), r \in Responses : FetchResolve(t, r)
    \/ \E t \in 1..Len(tasks) : FetchReject(t)
    \/ \E t \in 1..Len(tasks), b \in Bodies : ReadBody(t, b)

\* up to MaxCalls calls in flight at once, on both clients
Next ==
    \/ \E c \in ConcurrentPrimary : PrimaryCall(MaxCalls, c[1], c[2])
    \/ \E c \in ConcurrentLegacy : LegacyCall(MaxCalls, c[1], c[2])
    \/ Settle

Spec == Init /\ [][Next]_vars

\* one call of any public method with any arguments
NextUrl ==
    \/ \E m \in PrimaryMethods : \E a \in Arguments(m) : PrimaryCall(1, m, a)
    \/ \E m \in LegacyMethods : \E a \in LegacyArguments(m) : LegacyCall(1, m, a)
    \/ Settle

SpecUrl == Init /\ [][NextUrl]_vars

\* bodies that carry a topfeeds field
FeedBodies ==
    {<<"{", "\"topfeeds\"", ":", "[", "]", "}">>,
     <<"{", "\"topfeeds\"", ":", "[", "\"a1\"", ",", "\"a2\"", "]", "}">>,
     <<"{", "\"topfeeds\"", ":", "null", "}">>,
     <<"{", "}">>}

\* one call of get_topfeeds, answered with any status and body
NextFeeds ==
    \/ \E a \in LegacyArguments("get_topfeeds") : LegacyCall(1, "get_topfeeds", a)
    \/ \E t \in 1..Len(tasks), r \in Responses : FetchResolve(t, r)
    \/ \E t \in 1..Len(tasks) : FetchReject(t)
    \/ \E t \in 1..Len(tasks), b \in Bodies \cup FeedBodies : ReadBody(t, b)

SpecFeeds == Init /\ [][NextFeeds]_vars

----------------------------------------------------------------------------
(* extractArticleId: texts are sequences of characters here *)

\* the characters \s of a regular expression matches, among those used
IsSpace(c) == c \in {" "}

\* [a-zA-Z0-9]
AlnumChars ==
    {"a", "b", "c", "d", "e", "f", "g", "h", "i", "j", "k", "l", "m",
     "n", "o", "p", "q", "r", "s", "t", "u", "v", "w", "x", "y", "z",
     "A", "B", "C", "D", "E", "F", "G", "H", "I", "J", "K", "L", "M",
     "N", "O", "P", "Q", "R", "S", "T", "U", "V", "W", "X", "Y", "Z",
     "0", "1", "2", "3", "4", "5", "6", "7", "8", "9"}

\* /^[a-zA-Z0-9]+$/.test(s)
IsAlphanumeric(s) == Len(s) > 0 /\ \A i \in 1..Len(s) : s[i] \in AlnumChars

\* s has the characters of lit from position i on
HasAt(s, i, lit) ==
    i + Len(lit) - 1 <= Len(s) /\ SubSeq(s, i, i + Len(lit) - 1) = lit

\* /(https?:\/\/[^\s]+)/ matches at position i of s
MatchesAt(s, i) ==
    \/ /\ HasAt(s, i, <<"h", "t", "t", "p", "s", ":", "/", "/">>)
       /\ i + 8 <= Len(s) /\ ~IsSpace(s[i + 8])
    \/ /\ HasAt(s, i, <<"h", "t", "t", "p", ":", "/", "/">>)
       /\ i + 7 <= Len(s) /\ ~IsSpace(s[i + 7])

\* the end of the longest run without white space that starts at i
RECURSIVE RunEnd(_, _)
RunEnd(s, i) ==
    IF i < Len(s) /\ ~IsSpace(s[i + 1]) THEN RunEnd(s, i + 1) ELSE i

\* articleUrl.match(regex): the leftmost match, as long as it can be;
\* <<>> stands for null (a match is never empty)
RegexMatch(s) ==
    LET starts == {i \in 1..Len(s) : MatchesAt(s, i)}
    IN IF starts = {}
       THEN <<>>
       ELSE LET i == CHOOSE j \in starts : \A k \in starts : j <= k
            IN SubSeq(s, i, RunEnd(s, i))

\* the first position from i on where s has a character of set, or Len(s)+1
RECURSIVE FirstOf(_, _, _)
FirstOf(s, i, set) ==
    IF i > Len(s) \/ s[i] \in set THEN i ELSE FirstOf(s, i + 1, set)

\* the first position from i on where s has another character than c
RECURSIVE SkipAll(_, _, _)
SkipAll(s, i, c) ==
    IF i <= Len(s) /\ s[i] = c THEN SkipAll(s, i + 1, c) ELSE i

\* the characters a host may not contain
ForbiddenHostChars ==
    {" ", "#", "/", ":", "<", ">", "?", "@", "[", "\\", "]", "^", "|", "%"}

\* new URL(text) for a text that starts with http:// or https:// : the
\* slashes after the scheme are skipped, the host runs up to the next / ? #,
\* and the parse fails (a TypeError) when the host is empty or malformed
ParseURL(text) ==
    LET colon == FirstOf(text, 1, {":"})
        h == SkipAll(text, colon + 1, "/")
        e == FirstOf(text, h, {"/", "?", "#"})
        host == SubSeq(text, h, e - 1)
        q == FirstOf(text, e, {"?", "#"})
        path == SubSeq(text, e, q - 1)
    IN IF host = <<>> \/ \E i \in 1..Len(host) : host[i] \in ForbiddenHostChars
       THEN Thrown("TypeError")
       ELSE Returned([host |-> host,
                      pathname |-> IF path = <<>> THEN <<"/">> ELSE path])

\* s.split(sep).pop(): what follows the last sep of s, all of s without one
RECURSIVE SplitPop(_, _)
SplitPop(s, sep) ==
    IF s = <<>>
    THEN <<>>
    ELSE IF s[Len(s)] = sep
         THEN <<>>
         ELSE Append(SplitPop(SubSeq(s, 1, Len(s) - 1), sep), s[Len(s)])

\* extractArticleId(articleUrl): its completion
extractArticleId(url) ==
    LET urls == RegexMatch(url)
    IN IF urls # <<>>
       THEN LET parsed == ParseURL(urls)
            IN IF parsed.kind = "rejected"
               THEN parsed
               ELSE LET urlPath == parsed.value.pathname
                        lastLocation == SplitPop(urlPath, "/")
                        articleId == SplitPop(lastLocation, "-")
                    IN IF urlPath # <<>> /\ IsAlphanumeric(articleId)
                       THEN Returned(Str(articleId))
                       ELSE Returned(Null)
       ELSE Returned(Null)

\* the texts extractArticleId is called with: nothing, a scheme or a scheme
\* inside a sentence, followed by up to MaxTail characters
Lead ==
    {<<>>,
     <<"h", "t", "t", "p", ":", "/", "/">>,
     <<"h", "t", "t", "p", "s", ":", "/", "/">>,
     <<"a", " ", "h", "t", "t", "p", "s", ":", "/", "/">>}

TailChars == {"a", "-", "/", "[", "?", " "}

Tails == UNION {[1..n -> TailChars] : n \in 0..MaxTail}

ArticleUrls == {l \o t : l \in Lead, t \in Tails}

\* medium.extractArticleId(articleUrl) is called
ExtractArticleId ==
    /\ extracted = NotExtracting
    /\ extracted' = extractArticleId(articleUrl)
    /\ UNCHANGED <<clientVars, netVars, articleUrl>>

InitExtract ==
    /\ \E key \in Keys : Constructed(key)
    /\ tasks = <<>>
    /\ wire = <<>>
    /\ articleUrl \in ArticleUrls
    /\ extracted = NotExtracting

NextExtract == ExtractArticleId

SpecExtract == InitExtract /\ [][NextExtract]_vars

----------------------------------------------------------------------------
(* Properties of the request dispatchers *)

Primary(t) == tasks[t].client = "primary"
Legacy(t) == tasks[t].client = "legacy"
Answered(t) == tasks[t].response # NoResponse
Done(t) == tasks[t].pc = "done"

\* the request that was issued for task t
RequestOf(t) == wire[CHOOSE i \in DOMAIN wire : wire[i].task = t]

\* the query string of a fetched URL: what follows its first "?"
QueryString(url) ==
    LET q == FirstOf(url, 1, {"?"})
    IN SubSeq(url, q + 1, Len(url))

\* how often parameter key occurs in query string q
Occurrences(q, key) ==
    Cardinality({i \in 1..(Len(q) - 1) :
                    q[i] = key /\ q[i + 1] = "=" /\ (i = 1 \/ q[i - 1] = "&")})

\* a value that is the empty string, or absent
IsEmptyValue(v) == v \in {Str(<<>>), Undefined, Null}

\* C1: a parameter of the mapping handed to #makeRequest whose value is the
\* empty string or absent never occurs in the query string of the fetched
\* URL, and every parameter with a non-empty value occurs in it exactly once.
C1_EmptyParametersOmitted ==
    \A t \in DOMAIN tasks :
        Primary(t) =>
            \A i \in DOMAIN tasks[t].params.pairs :
                LET pair == tasks[t].params.pairs[i]
                    n == Occurrences(QueryString(RequestOf(t).url), pair[1])
                IN IF IsEmptyValue(pair[2]) THEN n = 0 ELSE n = 1

\* the description of an error result, <<>> when the result is none
ErrorDescription(outcome) ==
    IF /\ outcome.kind = "resolved"
       /\ outcome.value.type = "object"
       /\ "error" \in DOMAIN outcome.value.fields
       /\ outcome.value.fields["error"].type = "string"
    THEN outcome.value.fields["error"].s
    ELSE <<>>

\* C2: in the primary client, once the response to a request has a status
\* that is no success, the public method has resolved (not rejected) with an
\* object whose error field contains the requested endpoint path and the
\* status text of the response, and the body of the response is never parsed.
C2_SoftFailure ==
    \A t \in DOMAIN tasks :
        (Primary(t) /\ Answered(t) /\ ~tasks[t].response.ok) =>
            /\ Done(t)
            /\ tasks[t].outcome.kind = "resolved"
            /\ Contains(ErrorDescription(tasks[t].outcome), tasks[t].endpoint)
            /\ Contains(RequestOf(t).url, tasks[t].endpoint)
            /\ Contains(ErrorDescription(tasks[t].outcome),
                        tasks[t].response.statusText)
            /\ ~tasks[t].bodyUsed

\* a primary call was answered 404 Not Found and has settled
C2_Witness ==
    \E t \in DOMAIN tasks :
        /\ Primary(t) /\ Done(t)
        /\ tasks[t].response = Response(404, "Not Found")
        /\ tasks[t].method = "getArchivedArticles"

LegacyResult(m, decoded) ==
    IF m \in {"get_welcome", "get_user_info", "get_article_info"}
    THEN Returned(decoded)
    ELSE IF m = "get_topfeeds"
    THEN Thrown("ReferenceError")
    ELSE IF decoded \in {Null, Undefined}
         THEN Thrown("TypeError")
         ELSE Returned(Get(decoded,
                           CASE m = "get_user_id" -> "id"
                             [] m = "get_article_content" -> "content"
                             [] OTHER -> "responses"))

----------------------------------------------------------------------------
(* Properties of extractArticleId *)

Extracted == extracted # NotExtracting

\* the path of an embedded URL as it is written: what follows the host, up
\* to the query string
WrittenPath(u) ==
    LET colon == FirstOf(u, 1, {":"})
        e == FirstOf(u, colon + 3, {"/", "?"})
        q == FirstOf(u, e, {"?"})
    IN [host |-> SubSeq(u, colon + 3, e - 1), path |-> SubSeq(u, e, q - 1)]

\* the text after the last "-" of the last "/"-delimited segment of a path
TrailingSegment(path) == SplitPop(SplitPop(path, "/"), "-")

\* the last segment of path has the form something-<id>
HasIdForm(path) ==
    LET seg == SplitPop(path, "/")
        id == SplitPop(seg, "-")
    IN /\ IsAlphanumeric(id)
       /\ Len(seg) > Len(id) + 1

\* C4: extractArticleId returns <id> for every text that contains an http(s)
\* URL whose last path segment has the form something-<id>, <id> non-empty
\* and alphanumeric, and returns null for every text that contains no
\* embedded URL or whose trailing segment is empty or not alphanumeric.
C4_ExtractsTrailingId ==
    Extracted =>
        LET u == RegexMatch(articleUrl)
            w == WrittenPath(u)
        IN IF u = <<>>
           THEN extracted = Returned(Null)
           ELSE /\ (w.host # <<>> /\ HasIdForm(w.path)) =>
                       extracted = Returned(Str(TrailingSegment(w.path)))
                /\ (w.host # <<>> /\ ~IsAlphanumeric(TrailingSegment(w.path))) =>
                       extracted = Returned(Null)

\* C5: extractArticleId is total: for every text, also one whose match is no
\* parseable URL, it returns without throwing, and what it returns is null
\* or a non-empty alphanumeric string.
C5_TotalFunction ==
    Extracted =>
        /\ extracted.kind = "resolved"
        /\ \/ extracted.value = Null
           \/ /\ extracted.value.type = "string"
              /\ IsAlphanumeric(extracted.value.s)

----------------------------------------------------------------------------
(* Properties of the clients across calls *)

\* the values request r carries for header name
HeaderValues(r, name) == {h[2] : h \in {g \in r.headers : g[1] = name}}

\* C6: every request that was issued, by either client, is a GET that
\* carries the API-key header with exactly the key given to the constructor
\* and the user-agent header medium-api-js-sdk.
C6_EveryRequestCarriesKey ==
    \A i \in DOMAIN wire :
        /\ wire[i].method = "GET"
        /\ HeaderValues(wire[i], "x-rapidapi-key") = {given}
        /\ HeaderValues(wire[i], "user-agent") = {"medium-api-js-sdk"}

\* both clients have issued a request
C6_Witness ==
    /\ \E t \in DOMAIN tasks : Primary(t)
    /\ \E t \in DOMAIN tasks : Legacy(t)
    /\ Len(wire) = Len(tasks)

LegacyCalls(ts) == Cardinality({t \in DOMAIN ts : ts[t].client = "legacy"})

IdBodyText == <<"{", "\"id\"", ":", "\"abc123\"", "}">>
IdBodyValue == Obj([k \in {"id"} |-> Str(<<"abc123">>)])

\* the value text decodes to, written out for the bodies the server sends
DecodedBody(text) ==
    CASE text = IdBodyText -> IdBodyValue
      [] text = <<"{", "\"content\"", ":", "\"text\"", "}">> ->
             Obj([k \in {"content"} |-> Str(<<"text">>)])
      [] text = <<"null">> -> Null
      [] OTHER -> Undefined

C9_FullpageDefaultsFalse ==
    \A t \in DOMAIN tasks :
        (tasks[t].method = "getArticleHTML" /\ tasks[t].args[2] = Undefined) =>
            Contains(QueryString(RequestOf(t).url), <<"fullpage", "=", "false">>)

\* the result a settled call has by its own request and response alone
OwnOutcome(task) ==
    IF task.response = NoResponse
    THEN Thrown("TypeError")
    ELSE IF task.client = "primary" /\ ~task.response.ok
         THEN Returned(Obj([k \in {"error"} |->
                  Str(<<"Failed to fetch ">> \o task.endpoint \o <<": ">>
                      \o task.response.statusText)]))
         ELSE IF JsonParse(task.body).kind = "rejected"
              THEN Thrown("SyntaxError")
              ELSE IF task.client = "primary"
                   THEN JsonParse(task.body)
                   ELSE LegacyResult(task.method, JsonParse(task.body).value)

\* C10: calls in flight together are independent. In every step, whatever
\* the order of the events: a new call issues exactly one request and
\* leaves the calls before it alone; an event of the network continues one
\* call only and issues no request (no retry, also after a failure); and a
\* call that settles, settles to the result of its own response.
C10_CallsIndependent ==
    [][/\ \A t, u \in DOMAIN tasks :
              (tasks'[t] # tasks[t] /\ tasks'[u] # tasks[u]) => t = u
       /\ Len(tasks') = Len(tasks) => wire' = wire
       /\ Len(tasks') # Len(tasks) =>
              /\ Len(tasks') = Len(tasks) + 1
              /\ Len(wire') = Len(wire) + 1
              /\ SubSeq(wire', 1, Len(wire)) = wire
              /\ wire'[Len(wire')].task = Len(tasks')
              /\ \A t \in DOMAIN tasks : tasks'[t] = tasks[t]
       /\ \A t \in DOMAIN tasks :
              Cardinality({i \in DOMAIN wire : wire[i].task = t}) = 1
       /\ \A t \in DOMAIN tasks :
              (tasks[t].pc # "done" /\ tasks'[t].pc = "done") =>
                  tasks'[t].outcome = OwnOutcome(tasks'[t])]_vars

\* the second of two calls in flight has settled before the first, which
\* then failed
C10_Witness ==
    /\ Len(tasks) = 2
    /\ tasks[2].pc = "done" /\ tasks[2].outcome.kind = "resolved"
    /\ tasks[1].pc = "done" /\ tasks[1].outcome.kind = "rejected"
    /\ tasks[1].response # NoResponse /\ tasks[2].bodyUsed

----------------------------------------------------------------------------
(* Properties of get_topfeeds *)

\* C11: on a success response, get_topfeeds resolves to the empty list when
\* the topfeeds field of the decoded body is empty and to that field
\* otherwise; it does not fail for any decoded body.
C11_TopfeedsNeverFails ==
    \A t \in DOMAIN tasks :
        (/\ tasks[t].method = "get_topfeeds" /\ Done(t)
         /\ tasks[t].response.ok /\ tasks[t].bodyUsed
         /\ JsonParse(tasks[t].body).kind = "resolved") =>
            LET B == JsonParse(tasks[t].body).value
                feeds == Get(B, "topfeeds")
            IN /\ tasks[t].outcome.kind = "resolved"
               /\ tasks[t].outcome.value =
                      IF feeds \in {Undefined, Null, Arr(<<>>)}
                      THEN Arr(<<>>)
                      ELSE feeds

====
